---- MODULE Spec2Model ----
(***************************************************************************)
(* The authenticated write sequence of meetupNotebook_API_and_pywikibot:   *)
(* the four code cells (notebook lines 327-337, 366-375, 400-408, 433-445) *)
(* that create a requests.Session, fetch a login token, log in, fetch the  *)
(* csrf token and post one wbcreateclaim.                                  *)
(*                                                                         *)
(* The cells are executed the way "Run All" (or the notebook exported as a *)
(* script) executes them: in document order, each cell to its end, and an  *)
(* exception raised in a cell stops the run.  Every cell makes one blocking *)
(* call: it sends its request and waits inside session.get / session.post  *)
(* until the answer or the failure comes.  A further run is "Restart &     *)
(* Run All": a fresh kernel, in which session, token and response are      *)
(* unbound again, and a fresh requests.Session with an empty cookie jar.   *)
(* The remote service is the environment: every request is answered by one *)
(* of the outcomes a requests call can have (ConnectionError, a body       *)
(* without the key the cell reads, a well-formed body).                    *)
(***************************************************************************)
EXTENDS Naturals, Sequences, FiniteSets

\* Bounds of the model.
NumTokens == 2          \* distinct token strings the remote may hand out
MaxRuns == 2            \* runs of the notebook (one requests.Session each)
MaxIntents == 2         \* executions of the create-claim cell per run

Tokens == 1..NumTokens
NoToken == 0            \* the name `token` is unbound / no token in the body
NoSession == 0          \* the name `session` is unbound

VARIABLES
    pc,          \* the next cell "Run All" executes
    exc,         \* the exception that stopped the run, "none" while it runs
    session,     \* Python name `session`: identity of the requests.Session
    token,       \* Python name `token`
    response,    \* Python name `response`: the last response object received
    calls,       \* the outbound requests of the current run, with their answers
    nsessions,   \* requests.Session objects created so far
    intents,     \* executions of the create-claim cell in the current run
    inflight,    \* requests sent and not yet answered or failed
    blocked,     \* TRUE while the kernel waits inside session.get / session.post
    loggedIn,    \* remote: sessions the remote holds as authenticated
    csrfIssued,  \* remote: <<session, token>> edit tokens issued to authenticated sessions
    statements,  \* remote data: the statements created on the sandbox item
    enforce      \* remote: TRUE when it enforces token presence on writes

vars == <<pc, exc, session, token, response, calls, nsessions, intents,
          inflight, blocked, loggedIn, csrfIssued, statements, enforce>>

----------------------------------------------------------------------------
\* Responses.  status: "unreachable" (session.get/post raised, the request
\* never arrived), "lost" (session.post raised after the remote handled the
\* request), "malformed" (the body lacks the key the cell reads), "ok".
\* tok: the token in the body.
\* result: login result, or the outcome of wbcreateclaim.  id: the new
\* statement's id in a wbcreateclaim confirmation.
Resp(status, tok, result, id) ==
    [status |-> status, tok |-> tok, result |-> result, id |-> id]

NoResponse == Resp("none", NoToken, "", 0)

TokenResponses ==
    {Resp("ok", t, "", 0) : t \in Tokens}
        \cup {Resp("malformed", NoToken, "", 0), Resp("unreachable", NoToken, "", 0)}

LoginResponses ==
    {Resp("ok", NoToken, r, 0) : r \in {"Success", "Failed"}}
        \cup {Resp("malformed", NoToken, "", 0), Resp("unreachable", NoToken, "", 0)}

\* The claim payload of the create-claim cell.
Payload == [entity |-> "Q15397819", property |-> "P103", snaktype |-> "value",
            value |-> "Q188", summary |-> "add claim to sandbox"]

NoPayload == [entity |-> "", property |-> "", snaktype |-> "", value |-> "",
              summary |-> ""]

\* session.get / session.post raises instead of returning a response.
Raises(r) == r.status \in {"unreachable", "lost"}

Call(req, s, t, p, r) ==
    [req |-> req, session |-> s, token |-> t, payload |-> p, resp |-> r]

----------------------------------------------------------------------------
\* The cells.  Each sends one request, waits, and takes the answer r.

Request(req, s, t, p) == [req |-> req, session |-> s, token |-> t, payload |-> p]

\* A send that does not wait for the answer (a request handed to a worker
\* thread): the kernel goes on while the request is in flight.
SendNoWait(req, s, t, p) ==
    /\ inflight' = Append(inflight, Request(req, s, t, p))
    /\ blocked' = FALSE

\* session.get / session.post: the request goes out and the call blocks.
Send(req, s, t, p) ==
    /\ inflight' = Append(inflight, Request(req, s, t, p))
    /\ blocked' = TRUE

\* The blocking call returns or raises: its request is no longer in flight.
Return ==
    /\ inflight' = Tail(inflight)
    /\ blocked' = FALSE

\* Cell17 reading the token with dict.get: a body without the key leaves
\* token = None and raises nothing.
Cell17NoRaise(r) ==
    /\ calls' = Append(calls, Call("logintoken", session, NoToken, NoPayload, r))
    /\ IF Raises(r)
         THEN exc' = "ConnectionError" /\ UNCHANGED <<response, token>>
         ELSE /\ response' = r
              /\ exc' = "none"
              /\ token' = IF r.status = "malformed" THEN NoToken ELSE r.tok
    /\ UNCHANGED <<session, nsessions>>

\* The GET meta=tokens type=login of the session returned or raised;
\* token = response.json()['query']['tokens']['logintoken']
Cell17(r) ==
    /\ calls' = Append(calls, Call("logintoken", session, NoToken, NoPayload, r))
    /\ IF Raises(r)
         THEN exc' = "ConnectionError" /\ UNCHANGED <<response, token>>
         ELSE /\ response' = r
              /\ IF r.status = "malformed"
                   THEN exc' = "KeyError" /\ UNCHANGED token
                   ELSE exc' = "none" /\ token' = r.tok
    /\ UNCHANGED <<session, nsessions>>

\* POST action=login with lgtoken=token; print(response.json()['login']['result'])
Cell19(r) ==
    /\ calls' = Append(calls, Call("login", session, token, NoPayload, r))
    /\ IF Raises(r)
         THEN exc' = "ConnectionError" /\ UNCHANGED response
         ELSE /\ response' = r
              /\ exc' = IF r.status = "malformed" THEN "KeyError" ELSE "none"
    /\ UNCHANGED <<session, token, nsessions>>

\* Cell21 binding the csrf token to another name: token keeps the login token.
Cell21Shadow(r) ==
    /\ calls' = Append(calls, Call("csrftoken", session, NoToken, NoPayload, r))
    /\ IF Raises(r)
         THEN exc' = "ConnectionError" /\ UNCHANGED response
         ELSE /\ response' = r
              /\ exc' = IF r.status = "malformed" THEN "KeyError" ELSE "none"
    /\ UNCHANGED <<session, token, nsessions>>

\* Cell21 in a try/except that passes: a failed query raises nothing and
\* leaves token as it was.
Cell21NoRaise(r) ==
    /\ calls' = Append(calls, Call("csrftoken", session, NoToken, NoPayload, r))
    /\ exc' = "none"
    /\ response' = IF Raises(r) THEN response ELSE r
    /\ token' = IF r.status = "ok" THEN r.tok ELSE token
    /\ UNCHANGED <<session, nsessions>>

\* GET meta=tokens; token = response.json()['query']['tokens']['csrftoken']
Cell21(r) ==
    /\ calls' = Append(calls, Call("csrftoken", session, NoToken, NoPayload, r))
    /\ IF Raises(r)
         THEN exc' = "ConnectionError" /\ UNCHANGED <<response, token>>
         ELSE /\ response' = r
              /\ IF r.status = "malformed"
                   THEN exc' = "KeyError" /\ UNCHANGED token
                   ELSE exc' = "none" /\ token' = r.tok
    /\ UNCHANGED <<session, nsessions>>

\* Cell23 with a retry: a request that raised is sent once more.
Cell23Retry(r) ==
    /\ calls' = IF Raises(r)
                  THEN calls \o << Call("wbcreateclaim", session, token, Payload, r),
                                   Call("wbcreateclaim", session, token, Payload, r) >>
                  ELSE Append(calls, Call("wbcreateclaim", session, token, Payload, r))
    /\ IF Raises(r)
         THEN exc' = "ConnectionError" /\ UNCHANGED response
         ELSE /\ response' = r
              /\ exc' = IF r.status = "malformed" THEN "JSONDecodeError" ELSE "none"
    /\ UNCHANGED <<session, token, nsessions>>

\* POST action=wbcreateclaim with token=token; print(response.json())
Cell23(r) ==
    /\ calls' = Append(calls, Call("wbcreateclaim", session, token, Payload, r))
    /\ IF Raises(r)
         THEN exc' = "ConnectionError" /\ UNCHANGED response
         ELSE /\ response' = r
              /\ exc' = IF r.status = "malformed" THEN "JSONDecodeError" ELSE "none"
    /\ UNCHANGED <<session, token, nsessions>>

----------------------------------------------------------------------------
\* The remote service.

\* action=login: a Success makes the session an authenticated one.
RemoteLogin(s, r) ==
    /\ loggedIn' = IF r.status = "ok" /\ r.result = "Success"
                     THEN loggedIn \cup {s} ELSE loggedIn
    /\ UNCHANGED <<csrfIssued, statements>>

\* meta=tokens: a token handed to an authenticated session is an edit token
\* of that session; one handed to any other session authorises nothing.
RemoteTokens(s, r) ==
    /\ csrfIssued' = IF r.status = "ok" /\ s \in loggedIn
                       THEN csrfIssued \cup {<<s, r.tok>>} ELSE csrfIssued
    /\ UNCHANGED <<loggedIn, statements>>

Authorized(s, t) == s \in loggedIn /\ <<s, t>> \in csrfIssued

\* A remote that applies a write whatever token it carries.
CommitOutcomesNoCheck(s, t) ==
    {"success", "error", "ambiguous", "unreachable"}

\* What a wbcreateclaim can be answered with: a confirmation ("success"), an
\* error object ("error"), no answer although the write was applied
\* ("ambiguous": the connection drops after the remote committed), or no
\* answer and no write ("unreachable").  A remote that enforces token
\* presence applies no write without an edit token of an authenticated session.
CommitOutcomes(s, t) ==
    IF enforce /\ ~Authorized(s, t)
      THEN {"error", "unreachable"}
      ELSE {"success", "error", "ambiguous", "unreachable"}

\* A remote that deduplicates: a request equal to one already applied adds nothing.
RemoteCreateClaimDedup(s, t, o) ==
    /\ o \in CommitOutcomes(s, t)
    /\ statements' = IF /\ o \in {"success", "ambiguous"}
                        /\ \A n \in DOMAIN statements :
                              statements[n] # [session |-> s, token |-> t]
                       THEN Append(statements, [session |-> s, token |-> t])
                       ELSE statements
    /\ UNCHANGED <<loggedIn, csrfIssued>>

\* action=wbcreateclaim: every applied request appends one new statement.
RemoteCreateClaim(s, t, o) ==
    /\ o \in CommitOutcomes(s, t)
    /\ statements' = IF o \in {"success", "ambiguous"}
                       THEN Append(statements, [session |-> s, token |-> t])
                       ELSE statements
    /\ UNCHANGED <<loggedIn, csrfIssued>>

\* The answer the cell sees for outcome o.
CommitResponse(o) ==
    CASE o = "success" -> Resp("ok", NoToken, "success", Len(statements) + 1)
      [] o = "error" -> Resp("ok", NoToken, "error", 0)
      [] o = "ambiguous" -> Resp("lost", NoToken, "", 0)
      [] OTHER -> Resp("unreachable", NoToken, "", 0)

----------------------------------------------------------------------------
\* Run All: the cells in document order; a raised exception stops the run.

Init ==
    /\ pc = "cell17"
    /\ exc = "none"
    /\ session = NoSession
    /\ token = NoToken
    /\ response = NoResponse
    /\ calls = <<>>
    /\ nsessions = 0
    /\ intents = 0
    /\ inflight = <<>>
    /\ blocked = FALSE
    /\ loggedIn = {}
    /\ csrfIssued = {}
    /\ statements = <<>>
    /\ enforce \in BOOLEAN

Running(cell) == pc = cell /\ exc = "none"

\* The first half of each cell: up to the point where its call blocks.
SendCell17 ==
    /\ Running("cell17") /\ ~blocked
    /\ nsessions' = nsessions + 1
    /\ session' = nsessions + 1
    /\ Send("logintoken", nsessions + 1, NoToken, NoPayload)
    /\ UNCHANGED <<pc, exc, token, response, calls, intents,
                   loggedIn, csrfIssued, statements, enforce>>

\* Cell 19 posting with requests.post instead of session.post: the login
\* goes out without the session's cookie jar.
SendCell19NoSession ==
    /\ Running("cell19") /\ ~blocked
    /\ Send("login", NoSession, token, NoPayload)
    /\ UNCHANGED <<pc, exc, session, token, response, calls, nsessions, intents,
                   loggedIn, csrfIssued, statements, enforce>>

SendCell19 ==
    /\ Running("cell19") /\ ~blocked
    /\ Send("login", session, token, NoPayload)
    /\ UNCHANGED <<pc, exc, session, token, response, calls, nsessions, intents,
                   loggedIn, csrfIssued, statements, enforce>>

SendCell21 ==
    /\ Running("cell21") /\ ~blocked
    /\ Send("csrftoken", session, NoToken, NoPayload)
    /\ UNCHANGED <<pc, exc, session, token, response, calls, nsessions, intents,
                   loggedIn, csrfIssued, statements, enforce>>

SendCell23 ==
    /\ Running("cell23") /\ ~blocked
    /\ Send("wbcreateclaim", session, token, Payload)
    /\ UNCHANGED <<pc, exc, session, token, response, calls, nsessions, intents,
                   loggedIn, csrfIssued, statements, enforce>>

\* The second half of each cell: the call returns or raises, the cell ends.
RunCell17 ==
    /\ Running("cell17") /\ blocked
    /\ \E r \in TokenResponses : Cell17(r)
    /\ Return
    /\ pc' = IF exc' = "none" THEN "cell19" ELSE pc
    /\ UNCHANGED <<intents, loggedIn, csrfIssued, statements, enforce>>

RunCell19 ==
    /\ Running("cell19") /\ blocked
    /\ \E r \in LoginResponses : Cell19(r) /\ RemoteLogin(session, r)
    /\ Return
    /\ pc' = IF exc' = "none" THEN "cell21" ELSE pc
    /\ UNCHANGED <<intents, enforce>>

RunCell21 ==
    /\ Running("cell21") /\ blocked
    /\ \E r \in TokenResponses : Cell21(r) /\ RemoteTokens(session, r)
    /\ Return
    /\ pc' = IF exc' = "none" THEN "cell23" ELSE pc
    /\ UNCHANGED <<intents, enforce>>

RunCell23 ==
    /\ Running("cell23") /\ blocked
    /\ \E o \in {"success", "error", "ambiguous", "unreachable"} :
          RemoteCreateClaim(session, token, o) /\ Cell23(CommitResponse(o))
    /\ Return
    /\ intents' = intents + 1
    /\ pc' = IF exc' = "none" THEN "done" ELSE pc
    /\ UNCHANGED enforce

\* The caller executes the create-claim cell again: a new intent of the
\* caller, once the run has reached that cell.
ReinvokeCell23 ==
    /\ pc = "done" \/ (pc = "cell23" /\ exc # "none")
    /\ intents < MaxIntents
    /\ pc' = "cell23"
    /\ exc' = "none"
    /\ UNCHANGED <<session, token, response, calls, nsessions, intents,
                   inflight, blocked, loggedIn, csrfIssued, statements, enforce>>

\* The session context is discarded after the run: the remote's entries for
\* it end with it.  The remote data stays.
RemoteSessionEnd(s) ==
    /\ loggedIn' = loggedIn \ {s}
    /\ csrfIssued' = {e \in csrfIssued : e[1] # s}
    /\ UNCHANGED statements

\* The caller restarts the kernel and runs all cells again.
Restart ==
    /\ pc = "done" \/ exc # "none"
    /\ nsessions < MaxRuns
    /\ RemoteSessionEnd(session)
    /\ pc' = "cell17"
    /\ exc' = "none"
    /\ session' = NoSession
    /\ token' = NoToken
    /\ response' = NoResponse
    /\ calls' = <<>>
    /\ intents' = 0
    /\ UNCHANGED <<nsessions, inflight, blocked, enforce>>

Next ==
    \/ SendCell17
    \/ RunCell17
    \/ SendCell19
    \/ RunCell19
    \/ SendCell21
    \/ RunCell21
    \/ SendCell23
    \/ RunCell23
    \/ ReinvokeCell23
    \/ Restart

Spec == Init /\ [][Next]_vars

\* Run All executes the next cell up to its blocking call without being
\* asked.  Nothing makes a call return: the cells pass no timeout to
\* session.get / session.post, so an unanswered request blocks for good.
\* The caller's Restart and ReinvokeCell23 are the caller's to take or not.
FairSpec ==
    /\ Spec
    /\ WF_vars(SendCell17)
    /\ WF_vars(SendCell19)
    /\ WF_vars(SendCell21)
    /\ WF_vars(SendCell23)

----------------------------------------------------------------------------
\* Reading the log of the current run.

IsReq(k, req) == k \in DOMAIN calls /\ calls[k].req = req

\* The login at position i was answered with result Success.
LoginSuccess(i) ==
    IsReq(i, "login") /\ calls[i].resp.status = "ok" /\ calls[i].resp.result = "Success"

\* The login at position i was answered with a result other than Success.
LoginFailure(i) ==
    IsReq(i, "login") /\ calls[i].resp.status = "ok" /\ calls[i].resp.result # "Success"

\* The token query at position i returned token t.
TokenFetched(i, req, t) ==
    IsReq(i, req) /\ calls[i].resp.status = "ok" /\ calls[i].resp.tok = t

\* Before request k, on k's session: a successful login, then an edit token
\* fetched, and k carries that token.
AuthBefore(k) ==
    \E i, j \in DOMAIN calls :
        /\ i < j /\ j < k
        /\ LoginSuccess(i) /\ calls[i].session = calls[k].session
        /\ TokenFetched(j, "csrftoken", calls[k].token)
        /\ calls[j].session = calls[k].session

\* The write of request k was applied by the remote.
Applied(k) ==
    IsReq(k, "wbcreateclaim")
        /\ (calls[k].resp.result = "success" \/ calls[k].resp.status = "lost")

IsCommit(k) == IsReq(k, "wbcreateclaim")

\* The wbcreateclaim requests the run has sent, and those the remote applied.
Commits == {k \in DOMAIN calls : IsCommit(k)}
AppliedCommits == {k \in DOMAIN calls : Applied(k)}

\* The position of a request in the sequence of 4.1.
Rank(req) ==
    CASE req = "logintoken" -> 1
      [] req = "login" -> 2
      [] req = "csrftoken" -> 3
      [] OTHER -> 4

\* The request at position i failed: no answer, an answer without the key,
\* a login result other than Success, an error object for the write.
Failed(i) ==
    \/ Raises(calls[i].resp)
    \/ calls[i].resp.status = "malformed"
    \/ LoginFailure(i)
    \/ (IsCommit(i) /\ calls[i].resp.result = "error")

\* The state of 4.1 the run is in.
ProcState ==
    IF \E k \in DOMAIN calls : IsCommit(k) /\ calls[k].resp.result = "success"
      THEN "Committed"
    ELSE IF session \in loggedIn THEN "Authenticated"
    ELSE IF \E i \in DOMAIN calls : IsReq(i, "logintoken") /\ calls[i].resp.status = "ok"
      THEN "TokenRequested"
    ELSE "Unauthenticated"

StateSucc(a, b) ==
    \/ a = "Unauthenticated" /\ b = "TokenRequested"
    \/ a = "TokenRequested" /\ b = "Authenticated"
    \/ a = "Authenticated" /\ b = "Committed"

----------------------------------------------------------------------------
\* C1 (as claimed): every wbcreateclaim request is preceded, in the same run
\* and on the same session, by a successful login and then an edit-token
\* fetch, and carries that edit token.
C1_CommitOnlyAfterLoginSuccess ==
    \A k \in DOMAIN calls : IsCommit(k) => AuthBefore(k)

\* C2 (as claimed): after a login answered with a result other than Success
\* no further request is issued, and the session is not authenticated.
C2_HaltsOnLoginFailure ==
    \A i \in DOMAIN calls :
        LoginFailure(i) => (i = Len(calls) /\ ProcState # "Authenticated")

\* C3: every login request comes after a login-token query on the same
\* session that returned a token, and its lgtoken is exactly that token.
C3_LoginAfterLoginToken ==
    \A k \in DOMAIN calls :
        IsReq(k, "login") =>
            /\ calls[k].session # NoSession
            /\ \E i \in DOMAIN calls :
                  /\ i < k
                  /\ TokenFetched(i, "logintoken", calls[k].token)
                  /\ calls[i].session = calls[k].session
                  /\ \A m \in DOMAIN calls : (i < m /\ m < k) => ~IsReq(m, "logintoken")

\* C3 witness: a login was issued for a valid and for an invalid pair alike;
\* here one that the remote answered.
C3_Witness ==
    \E k \in DOMAIN calls : IsReq(k, "login") /\ calls[k].resp.status = "ok"

\* C4: when the remote answers login token t1, login Success, edit token t2,
\* the requests before the commit are exactly the login-token query, the
\* login and the edit-token query, in that order, and token holds t2.
C4_ThreeCallsThenToken ==
    \A t1, t2 \in Tokens :
        ( /\ Len(calls) >= 3
          /\ calls[1].resp = Resp("ok", t1, "", 0)
          /\ calls[2].resp = Resp("ok", NoToken, "Success", 0)
          /\ calls[3].resp = Resp("ok", t2, "", 0) )
        => /\ calls[1].req = "logintoken"
           /\ calls[2].req = "login"
           /\ calls[3].req = "csrftoken"
           /\ \A k \in DOMAIN calls : k > 3 => IsCommit(k)
           /\ token = t2

\* C4 witness: the answers were T1, Success, T2 (two different tokens) and
\* the commit is next.
C4_Witness ==
    \E t1, t2 \in Tokens :
        /\ t1 # t2
        /\ pc = "cell23" /\ exc = "none" /\ Len(calls) = 3
        /\ calls[1].resp = Resp("ok", t1, "", 0)
        /\ calls[2].resp = Resp("ok", NoToken, "Success", 0)
        /\ calls[3].resp = Resp("ok", t2, "", 0)
        /\ token = t2

\* C5: the run has sent exactly one wbcreateclaim request per execution of
\* the create-claim cell, whatever the requests were answered with.
C5_OneCommitPerIntent ==
    Cardinality(Commits) = intents

\* C5 witness: a commit failed ambiguously and was not sent again.
C5_Witness ==
    /\ intents = 1
    /\ \E k \in DOMAIN calls : IsCommit(k) /\ Raises(calls[k].resp)

\* C6: the remote does not deduplicate: every applied wbcreateclaim of the
\* run added a statement of its own, so two confirmed requests with the same
\* session, token and payload carry two different statement ids.
C6_CommitNotDeduplicated ==
    /\ Cardinality({n \in DOMAIN statements : statements[n].session = session})
          = Cardinality(AppliedCommits)
    /\ \A i, j \in DOMAIN calls :
          ( /\ i < j /\ IsCommit(i) /\ IsCommit(j)
            /\ calls[i].session = calls[j].session
            /\ calls[i].token = calls[j].token
            /\ calls[i].payload = calls[j].payload
            /\ calls[i].resp.result = "success"
            /\ calls[j].resp.result = "success" )
          => /\ calls[i].resp.id # calls[j].resp.id
             /\ calls[i].resp.id \in DOMAIN statements
             /\ calls[j].resp.id \in DOMAIN statements

\* C6 witness: the same commit was issued twice and confirmed twice.
C6_Witness ==
    \E i, j \in DOMAIN calls :
        /\ i < j /\ IsCommit(i) /\ IsCommit(j)
        /\ calls[i].token = calls[j].token
        /\ calls[i].resp.result = "success"
        /\ calls[j].resp.result = "success"

\* C7: a remote that enforces token presence rejects every wbcreateclaim
\* that was not preceded by a successful login and an edit-token fetch on
\* its session, and no statement of the remote data stems from it.
C7_UnauthorizedCommitRejected ==
    enforce =>
        \A k \in DOMAIN calls :
            (IsCommit(k) /\ ~AuthBefore(k)) =>
                /\ ~Applied(k)
                /\ \A n \in DOMAIN statements :
                      statements[n] # [session |-> calls[k].session,
                                       token |-> calls[k].token]

\* C7 witness: the enforcing remote answered such a commit with an error object.
C7_Witness ==
    /\ enforce
    /\ \E k \in DOMAIN calls :
          IsCommit(k) /\ ~AuthBefore(k) /\ calls[k].resp.result = "error"

\* C8 (as claimed): an edit-token query returns a token only after a
\* successful login on the same session; otherwise the step raises.
C8_EditTokenOnlyAfterLogin ==
    \A j \in DOMAIN calls :
        (IsReq(j, "csrftoken") /\ calls[j].resp.status = "ok") =>
            \E i \in DOMAIN calls :
                i < j /\ LoginSuccess(i) /\ calls[i].session = calls[j].session

\* C9 (as claimed): a failed step raises to the caller, and no later step of
\* the sequence is issued after it.
C9_ErrorsPropagate ==
    \A i \in DOMAIN calls :
        Failed(i) =>
            /\ (i = Len(calls) /\ ~IsCommit(i)) => exc # "none"
            /\ \A j \in DOMAIN calls :
                  i < j => Rank(calls[j].req) <= Rank(calls[i].req)

\* C10 (as claimed): within a run the state of 4.1 stays or moves to its
\* successor: Unauthenticated, TokenRequested, Authenticated, Committed.
C10_StateAdvancesInOrder ==
    [][(calls' # <<>>) => (ProcState' = ProcState \/ StateSucc(ProcState, ProcState'))]_vars

\* C11: every request of the run, answered or in flight, went out on the one
\* session the run created (a new one, not that of an earlier run), and every
\* token a request carries was obtained before it on that same session.
C11_OneSessionPerRun ==
    /\ (calls # <<>> \/ inflight # <<>>) => (session # NoSession /\ session = nsessions)
    /\ \A n \in DOMAIN inflight :
          /\ inflight[n].session = session
          /\ (inflight[n].token # NoToken) =>
                \E i \in DOMAIN calls :
                    /\ calls[i].session = inflight[n].session
                    /\ calls[i].resp.status = "ok"
                    /\ calls[i].resp.tok = inflight[n].token
    /\ \A k \in DOMAIN calls :
          /\ calls[k].session = session
          /\ (calls[k].token # NoToken) =>
                \E i \in DOMAIN calls :
                    /\ i < k
                    /\ calls[i].session = calls[k].session
                    /\ calls[i].resp.status = "ok"
                    /\ calls[i].resp.tok = calls[k].token

\* C11 witness: a second run has sent all four requests on its own session.
C11_Witness ==
    /\ nsessions = 2 /\ session = 2
    /\ Len(calls) = 4 /\ IsCommit(4)

C12_OneRequestInFlight ==
    /\ Len(inflight) <= 1
    /\ (inflight # <<>>) <=> blocked
    /\ blocked =>
          /\ exc = "none"
          /\ inflight[1].session = session
          /\ Rank(inflight[1].req) = Len(calls) + 1 \/ inflight[1].req = "wbcreateclaim"

\* C12 witness: the login is in flight after the login-token query was answered.
C12_Witness ==
    /\ blocked
    /\ inflight # <<>> /\ inflight[1].req = "login"
    /\ Len(calls) = 1

\* A run starts, and a run is over.
Started == pc = "cell17" /\ exc = "none" /\ ~blocked
Terminated == ~blocked /\ (pc = "done" \/ exc # "none")

\* The terminal states: a finished run has committed, or got an error object
\* for its write, or was stopped by a raised exception; and when the login
\* succeeded and the edit-token query then failed, the run stopped right
\* there with that exception, without a commit.
TerminalStates ==
    /\ Terminated =>
          \/ ProcState = "Committed"
          \/ exc \in {"ConnectionError", "KeyError", "JSONDecodeError"}
          \/ (calls # <<>> /\ IsCommit(Len(calls))
                /\ calls[Len(calls)].resp.result = "error")
    /\ \A i, j \in DOMAIN calls :
          ( /\ i < j /\ LoginSuccess(i) /\ IsReq(j, "csrftoken")
            /\ (Raises(calls[j].resp) \/ calls[j].resp.status = "malformed") )
          => /\ j = Len(calls)
             /\ Terminated
             /\ pc = "cell21"
             /\ exc \in {"ConnectionError", "KeyError"}
             /\ ProcState # "Committed"
             /\ Commits = {}

\* C13 (as claimed): every run terminates, in Committed or in an explicit
\* error state, and a failure of the edit-token query after a successful
\* login ends the run with the error and never in Committed.
C13_EveryRunTerminates ==
    /\ []TerminalStates
    /\ Started ~> Terminated

\* C13 (amended): the same, for the runs in which every request sent is
\* answered or fails.
C13_TerminatesWhenAnswered ==
    /\ []TerminalStates
    /\ (blocked ~> ~blocked) => (Started ~> Terminated)

\* C13 witness: the login succeeded, the edit-token query failed, the run is over.
C13_Witness ==
    /\ Terminated
    /\ Len(calls) = 3
    /\ LoginSuccess(2)
    /\ IsReq(3, "csrftoken") /\ Raises(calls[3].resp)

====
